---- MODULE Spec2Model ----
(***************************************************************************)
(* A model of src/poems.py: the Poetry Foundation scraper.                 *)
(*                                                                         *)
(* Text is modelled as a sequence of one-character strings, so that the    *)
(* string operations of the source (strip, lower, split, re.sub, slicing,  *)
(* startswith, substring tests, len) are computed as the source computes   *)
(* them.                                                                   *)
(***************************************************************************)
EXTENDS Integers, Sequences, FiniteSets, TLC

VARIABLES
    pc,          \* which call is in progress / finished
    page,        \* the parsed page handed to the function under study
    arg,         \* the remaining arguments of the call
    result,      \* the value the call returned
    fs,          \* the destination folder: file name -> content
    st,          \* the orchestrator's locals (row index, poem index, counters, ...)
    trace        \* the orchestrator's observable events, in order

vars == <<pc, page, arg, result, fs, st, trace>>

\* Python's None where a text is expected: a value no text equals
None == <<"None">>

(***************************************************************************)
(* Strings                                                                 *)
(***************************************************************************)
NL == "\n"
SP == " "

\* str.strip() and the regex class \s: the whitespace characters.
Whitespace == {" ", "\n", "\t"}

Uppers == <<"A","B","C","D","E","F","G","H","I","J","K","L","M",
            "N","O","P","Q","R","S","T","U","V","W","X","Y","Z">>
Lowers == <<"a","b","c","d","e","f","g","h","i","j","k","l","m",
            "n","o","p","q","r","s","t","u","v","w","x","y","z">>

\* str.lower() on one character
LowerChar(c) ==
    IF \E i \in 1..Len(Uppers) : Uppers[i] = c
    THEN Lowers[CHOOSE i \in 1..Len(Uppers) : Uppers[i] = c]
    ELSE c

\* str.lower()
Lower(s) == [i \in 1..Len(s) |-> LowerChar(s[i])]

\* s[k:] of Python, for 0 <= k
Drop(s, k) == IF k >= Len(s) THEN <<>> ELSE SubSeq(s, k + 1, Len(s))

\* s.startswith(p)
StartsWith(s, p) == Len(p) <= Len(s) /\ SubSeq(s, 1, Len(p)) = p

\* p in s (substring test)
Contains(s, p) ==
    \E i \in 0..(Len(s) - Len(p)) : SubSeq(s, i + 1, i + Len(p)) = p

\* s.lstrip(chars)
RECURSIVE LStripSet(_, _)
LStripSet(s, chars) ==
    IF s # <<>> /\ Head(s) \in chars THEN LStripSet(Tail(s), chars) ELSE s

\* s.rstrip(chars)
RECURSIVE RStripSet(_, _)
RStripSet(s, chars) ==
    IF s # <<>> /\ s[Len(s)] \in chars
    THEN RStripSet(SubSeq(s, 1, Len(s) - 1), chars)
    ELSE s

\* s.strip()
Strip(s) == RStripSet(LStripSet(s, Whitespace), Whitespace)

\* s.split('\n'): the lines of s (always at least one, possibly empty)
RECURSIVE SplitNL(_)
SplitNL(s) ==
    IF \E i \in 1..Len(s) : s[i] = NL
    THEN LET k == CHOOSE i \in 1..Len(s) :
                     s[i] = NL /\ \A j \in 1..(i - 1) : s[j] # NL
         IN  <<SubSeq(s, 1, k - 1)>> \o SplitNL(Drop(s, k))
    ELSE <<s>>

\* '\n'.join(lines)
RECURSIVE JoinNL(_)
JoinNL(lines) ==
    IF lines = <<>> THEN <<>>
    ELSE IF Len(lines) = 1 THEN lines[1]
    ELSE lines[1] \o <<NL>> \o JoinNL(Tail(lines))

\* the concatenation of a sequence of strings
RECURSIVE Concat(_)
Concat(parts) == IF parts = <<>> THEN <<>> ELSE Head(parts) \o Concat(Tail(parts))

\* the elements of s at the indices in K, in order
RECURSIVE PickFrom(_, _, _)
PickFrom(s, K, i) ==
    IF i > Len(s) THEN <<>>
    ELSE (IF i \in K THEN <<s[i]>> ELSE <<>>) \o PickFrom(s, K, i + 1)

\* n copies of the character c
Rep(c, n) == [i \in 1..n |-> c]

\* all sequences over S of length at most n
SeqUpTo(S, n) == UNION {[1..k -> S] : k \in 0..n}

(***************************************************************************)
(* clean_filename                                                          *)
(***************************************************************************)
\* the character class [<>:"/\\|?*] of the first re.sub
UnsafeChars == {"<", ">", ":", "\"", "/", "\\", "|", "?", "*"}

\* re.sub(r'[<>:"/\\|?*]', '_', name)
SubUnsafe(name) ==
    [i \in 1..Len(name) |-> IF name[i] \in UnsafeChars THEN "_" ELSE name[i]]

\* re.sub(r'\s+', '_', name) read as "every whitespace character becomes '_'"
SubWhitespaceEach(name) ==
    [i \in 1..Len(name) |-> IF name[i] \in Whitespace THEN "_" ELSE name[i]]

\* re.sub(r'\s+', '_', name): every maximal whitespace run becomes one '_'
RECURSIVE SubWhitespaceRuns(_)
SubWhitespaceRuns(name) ==
    IF name = <<>> THEN <<>>
    ELSE IF Head(name) \in Whitespace
         THEN <<"_">> \o SubWhitespaceRuns(LStripSet(name, Whitespace))
         ELSE <<Head(name)>> \o SubWhitespaceRuns(Tail(name))

clean_filename(name) ==
    LET a == SubUnsafe(name)
        b == SubWhitespaceRuns(a)
    IN  RStripSet(LStripSet(b, {"_"}), {"_"})

(***************************************************************************)
(* The destination folder and save_poem                                    *)
(***************************************************************************)
\* folder_path / f"{filename}.txt": a file is keyed by its folder and its stem
FilePath(folder, stem) == [dir |-> folder, name |-> stem]

Exists(files, path) == path \in DOMAIN files

\* open(path, 'w') followed by f.write(content)
WriteFile(files, path, content) ==
    [p \in (DOMAIN files) \cup {path} |-> IF p = path THEN content ELSE files[p]]

\* What the file operations of save_poem can do: succeed, fail in open()
\* (nothing is touched), or fail in write() after open() truncated the file.
IoOutcomes == {"ok", "openFails", "writeFails"}

\* `not poem_content or len(poem_content.strip()) < 10`
TooShortAtTen(poem_content) ==
    poem_content = None \/ poem_content = <<>> \/ Len(Strip(poem_content)) <= 10

TooShort(poem_content) ==
    poem_content = None \/ poem_content = <<>> \/ Len(Strip(poem_content)) < 10

\* save_poem(poem_content, folder_path, filename) under the outcome io of its
\* file operations: the value returned and the folder afterwards
save_poem(poem_content, files, folder, filename, io) ==
    IF TooShort(poem_content)
    THEN [ret |-> FALSE, fs |-> files, wrote |-> FALSE]
    ELSE CASE io = "ok" ->
                [ret |-> TRUE,
                 fs |-> WriteFile(files, FilePath(folder, filename), poem_content),
                 wrote |-> TRUE]
           [] io = "openFails" ->
                [ret |-> FALSE, fs |-> files, wrote |-> FALSE]
           [] io = "writeFails" ->
                [ret |-> FALSE,
                 fs |-> WriteFile(files, FilePath(folder, filename), <<>>),
                 wrote |-> FALSE]

(***************************************************************************)
(* Specification SpecSave: one call of save_poem                           *)
(***************************************************************************)
MaxTextLen == 11

SaveTexts == SeqUpTo({"a", " "}, MaxTextLen) \cup {None}

SaveFolder == "poems/love"
SaveStem == <<"O", "d", "e">>
OldContent == <<"o", "l", "d">>

InitSave ==
    /\ pc = "save_ready"
    /\ page = None
    /\ arg \in [poem_content : SaveTexts, filename : {SaveStem}]
    /\ result = FALSE
    /\ fs \in {<<>>, WriteFile(<<>>, FilePath(SaveFolder, SaveStem), OldContent)}
    /\ st = [fs0 |-> fs, io |-> "none"]
    /\ trace = <<>>

SavePoemCall ==
    /\ pc = "save_ready"
    /\ \E io \in IoOutcomes :
         LET r == save_poem(arg.poem_content, fs, SaveFolder, arg.filename, io)
         IN  /\ result' = r.ret
             /\ fs' = r.fs
             /\ st' = [st EXCEPT !.io = io]
    /\ pc' = "save_done"
    /\ UNCHANGED <<page, arg, trace>>

NextSave == SavePoemCall

SpecSave == InitSave /\ [][NextSave]_vars

\* C4: save_poem writes nothing and returns not-saved when the trimmed length
\* of the text is below 10 (empty or missing text included); when the trimmed
\* length is 10 or more and the write succeeds it writes exactly the untrimmed
\* text to <directory>/<slug>.txt and returns saved.
TrimmedLen(t) == IF t = None THEN 0 ELSE Len(Strip(t))

C4_SaveThreshold ==
    pc = "save_done" =>
        /\ TrimmedLen(arg.poem_content) < 10 =>
               result = FALSE /\ fs = st.fs0
        /\ (TrimmedLen(arg.poem_content) >= 10 /\ st.io = "ok") =>
               /\ result = TRUE
               /\ DOMAIN fs = (DOMAIN st.fs0) \cup {FilePath(SaveFolder, arg.filename)}
               /\ fs[FilePath(SaveFolder, arg.filename)] = arg.poem_content

\* a text with surrounding whitespace whose trimmed length is exactly 10 is written untrimmed
C4_Witness ==
    /\ pc = "save_done"
    /\ arg.poem_content # None
    /\ TrimmedLen(arg.poem_content) = 10
    /\ Len(arg.poem_content) = 11
    /\ st.io = "ok"
    /\ st.fs0 # <<>>
    /\ result = TRUE

(***************************************************************************)
(* scrape_poem_content                                                     *)
(*                                                                         *)
(* A poem page is the record of what the selector chains find on it:       *)
(*   ok      : get_page returned a response                                *)
(*   titles  : get_text(strip=True) of the element each title selector     *)
(*             selects, in chain order (selectors selecting nothing are    *)
(*             absent)                                                     *)
(*   bodies  : get_text(separator='\n', strip=True) of the element each    *)
(*             body selector selects, after the nested /poets/ links were  *)
(*             decomposed, in chain order                                  *)
(*   main    : the text of the 'main, article, .main-content, .content'    *)
(*             element, None when there is none                            *)
(*   authors : get_text(strip=True) of the element each author selector    *)
(*             selects, in chain order                                     *)
(***************************************************************************)

\* get_text(strip=True) joins stripped, non-empty strings: the text is empty
\* or begins and ends with a non-whitespace character
IsGetText(t) == t = <<>> \/ (t[1] \notin Whitespace /\ t[Len(t)] \notin Whitespace)

\* `if x.lower().startswith('p1'): x = x[2:].strip()`
StripP1(title) ==
    IF StartsWith(Lower(title), <<"p", "1">>) THEN Strip(Drop(title, 2)) ELSE title

\* the title loop: the first selected element whose text has len > 1 wins
RECURSIVE TitleLoop(_, _)
TitleLoop(titles, actual_title) ==
    IF titles = <<>> THEN actual_title
    ELSE IF Head(titles) # <<>> /\ Len(Head(titles)) > 1 THEN Head(titles)
    ELSE TitleLoop(Tail(titles), actual_title)

SelectTitle(titles, poem_title) == StripP1(TitleLoop(titles, poem_title))

\* `if poem_content and len(poem_content) > 30: break`
BodyQualifies(text) == text # <<>> /\ Len(text) > 30

\* the body loop: poem_content is assigned for every selected element and the
\* loop breaks at the first one that qualifies
RECURSIVE BodyLoop(_, _)
BodyLoop(bodies, poem_content) ==
    IF bodies = <<>> THEN poem_content
    ELSE IF BodyQualifies(Head(bodies)) THEN Head(bodies)
    ELSE BodyLoop(Tail(bodies), Head(bodies))

\* `if not poem_content:` the main-content fallback
SelectBody(bodies, main) ==
    LET poem_content == BodyLoop(bodies, None)
    IN  IF poem_content = None \/ poem_content = <<>>
        THEN (IF main # None THEN main ELSE poem_content)
        ELSE poem_content

\* the same substitution without flags=re.IGNORECASE
SubAuthorPrefixCaseSensitive(author_text) ==
    LET rest == IF StartsWith(author_text, <<"b", "y">>) THEN Drop(author_text, 2)
                ELSE IF StartsWith(author_text, <<"a", "u", "t", "h", "o", "r", ":">>) THEN Drop(author_text, 7)
                ELSE IF StartsWith(author_text, <<"a", "u", "t", "h", "o", "r">>) THEN Drop(author_text, 6)
                ELSE None
    IN  IF rest = None THEN author_text ELSE LStripSet(rest, Whitespace)

\* re.sub(r'^(by|author:?)\s*', '', author_text, flags=re.IGNORECASE)
SubAuthorPrefix(author_text) ==
    LET low == Lower(author_text)
        rest == IF StartsWith(low, <<"b", "y">>) THEN Drop(author_text, 2)
                ELSE IF StartsWith(low, <<"a", "u", "t", "h", "o", "r", ":">>) THEN Drop(author_text, 7)
                ELSE IF StartsWith(low, <<"a", "u", "t", "h", "o", "r">>) THEN Drop(author_text, 6)
                ELSE None
    IN  IF rest = None THEN author_text ELSE LStripSet(rest, Whitespace)

UnknownAuthor == <<"U", "n", "k", "n", "o", "w", "n", " ", "A", "u", "t", "h", "o", "r">>

\* the author loop: the first selected element whose text, prefix removed,
\* has len > 1 wins
RECURSIVE AuthorLoop(_)
AuthorLoop(authors) ==
    IF authors = <<>> THEN UnknownAuthor
    ELSE LET author_text == SubAuthorPrefix(Head(authors))
         IN  IF author_text # <<>> /\ Len(author_text) > 1 THEN author_text
             ELSE AuthorLoop(Tail(authors))

SelectAuthor(authors) == AuthorLoop(authors)

skip_patterns ==
    {<<"b", "r", "o", "w", "s", "e", " ", "p", "o", "e", "m", "s">>, <<"m", "o", "r", "e", " ", "p", "o", "e", "m", "s">>, <<"r", "e", "l", "a", "t", "e", "d", " ", "p", "o", "e", "m", "s">>, <<"s", "h", "a", "r", "e", " ", "t", "h", "i", "s", " ", "p", "o", "e", "m">>}

IsNoiseLine(line) == \E pattern \in skip_patterns : Contains(Lower(line), pattern)

\* the cleaning loop dropping every blank line (`if not line: continue`)
RECURSIVE CleanLoopDropsAllBlank(_, _)
CleanLoopDropsAllBlank(lines, cleaned_lines) ==
    IF lines = <<>> THEN cleaned_lines
    ELSE LET line == Strip(Head(lines))
         IN  IF line = <<>>
             THEN CleanLoopDropsAllBlank(Tail(lines), cleaned_lines)
             ELSE IF IsNoiseLine(line)
             THEN CleanLoopDropsAllBlank(Tail(lines), cleaned_lines)
             ELSE CleanLoopDropsAllBlank(Tail(lines), Append(cleaned_lines, line))

\* the cleaning loop over lines, cleaned_lines being what was appended so far
RECURSIVE CleanLoop(_, _)
CleanLoop(lines, cleaned_lines) ==
    IF lines = <<>> THEN cleaned_lines
    ELSE LET line == Strip(Head(lines))
         IN  IF cleaned_lines = <<>> /\ line = <<>>
             THEN CleanLoop(Tail(lines), cleaned_lines)
             ELSE IF IsNoiseLine(line)
             THEN CleanLoop(Tail(lines), cleaned_lines)
             ELSE CleanLoop(Tail(lines), Append(cleaned_lines, line))

CleanedLines(poem_content) == CleanLoop(SplitNL(poem_content), <<>>)

\* f"Title: {actual_title}\nAuthor: {author}\n\n{cleaned_content}"
FormatContent(actual_title, author, cleaned_content) ==
    <<"T", "i", "t", "l", "e", ":", " ">> \o actual_title \o <<NL>> \o <<"A", "u", "t", "h", "o", "r", ":", " ">> \o author
      \o <<NL, NL>> \o cleaned_content

\* scrape_poem_content(poem_url, poem_title) on the page the URL serves: the
\* value returned (None for nothing) and the locals it was composed from
scrape_poem_content(pg, poem_title) ==
    IF ~pg.ok
    THEN [ret |-> None, actual_title |-> None, author |-> None,
          poem_content |-> None, cleaned_lines |-> <<>>]
    ELSE LET actual_title == SelectTitle(pg.titles, poem_title)
             poem_content == SelectBody(pg.bodies, pg.main)
             author == SelectAuthor(pg.authors)
             has == poem_content # None /\ poem_content # <<>>
             cleaned == IF has THEN CleanedLines(poem_content) ELSE <<>>
         IN  [ret |-> IF has
                      THEN FormatContent(actual_title, author, JoinNL(cleaned))
                      ELSE None,
              actual_title |-> actual_title,
              author |-> author,
              poem_content |-> poem_content,
              cleaned_lines |-> cleaned]

(***************************************************************************)
(* Specification SpecContent: one call of scrape_poem_content on a poem    *)
(* page.  The pages are drawn from four families, each varying one part of *)
(* the page (body matches, author matches, title matches, body lines).     *)
(***************************************************************************)
MaxBodyMatches == 3
MaxAuthorMatches == 2
MaxAuthorChunks == 3
MaxTitleMatches == 2
MaxTitleChunks == 3
MaxCleanChunks == 7

\* the texts of at most n chunks that get_text(strip=True) can return
ChunkTexts(chunks, n) ==
    {t \in {Concat(parts) : parts \in SeqUpTo(chunks, n)} : IsGetText(t)}

BodyTexts == {<<>>, Rep("c", 5), Rep("a", 30), Rep("b", 31)}
MainTexts == {None, <<>>, Rep("m", 3), Rep("m", 40)}

AuthorChunks == {<<"b", "y">>, <<"B", "y">>, <<" ">>, <<"a", "u", "t", "h", "o", "r", ":">>, <<"A", "U", "T", "H", "O", "R">>, <<"J", "o">>, <<"n">>, <<"\n">>}
AuthorSamples == {<<>>, <<"B", "y", " ", "A", "l">>, <<"b", "y">>, <<"b", "y", " ", "X">>, <<"A", "u", "t", "h", "o", "r", ":", " ", "B", "o">>, <<"C", "y">>}

TitleChunks == {<<"T">>, <<"A", "b">>, <<"p", "1">>, <<"P", "1">>, <<" ">>, <<"\n">>}
TitleSamples == {<<>>, <<"T">>, <<"O", "d", "e">>, <<"p", "1", " ", "S", "e", "a">>}
ProvisionalTitles == {<<"L", "e", "a", "v", "e", "s">>, <<"P", "1", "F", "o", "g">>, <<"A", "t", "\n", "S", "e", "a">>}

CleanChunks == {<<"x">>, <<" ">>, <<"\n">>, <<"M", "o", "r", "e", " ", "P", "o", "e", "m", "s">>}

DefaultBody == Rep("b", 31)

PoemPage(ok, titles, bodies, main, authors) ==
    [ok |-> ok, titles |-> titles, bodies |-> bodies, main |-> main,
     authors |-> authors]

BodyPages ==
    {PoemPage(ok, <<>>, bodies, main, <<>>) :
        ok \in BOOLEAN, bodies \in SeqUpTo(BodyTexts, MaxBodyMatches),
        main \in MainTexts}

AuthorPages ==
    {PoemPage(TRUE, <<>>, <<DefaultBody>>, None, authors) :
        authors \in SeqUpTo(AuthorSamples, MaxAuthorMatches)
                    \cup {<<t>> : t \in ChunkTexts(AuthorChunks, MaxAuthorChunks)}}

TitlePages ==
    {PoemPage(TRUE, titles, <<DefaultBody>>, None, authors) :
        titles \in SeqUpTo(TitleSamples, MaxTitleMatches)
                   \cup {<<t>> : t \in ChunkTexts(TitleChunks, MaxTitleChunks)},
        authors \in {<<>>, <<<<"b", "y", " ", "A", "l", "\n", "B", "o">>>>}}

CleanPages ==
    {PoemPage(TRUE, <<>>, <<>>, main, <<>>) :
        main \in ChunkTexts(CleanChunks, MaxCleanChunks)}

InitContent ==
    /\ pc = "scrape_ready"
    /\ \/ page \in BodyPages \cup AuthorPages \cup CleanPages
          /\ arg = [poem_title |-> <<"L", "e", "a", "v", "e", "s">>]
       \/ page \in TitlePages
          /\ arg \in [poem_title : ProvisionalTitles]
    /\ result = None
    /\ fs = <<>>
    /\ st = [actual_title |-> None, author |-> None, poem_content |-> None,
             cleaned_lines |-> <<>>]
    /\ trace = <<>>

ScrapePoemContentCall ==
    /\ pc = "scrape_ready"
    /\ LET r == scrape_poem_content(page, arg.poem_title)
       IN  /\ result' = r.ret
           /\ st' = [actual_title |-> r.actual_title, author |-> r.author,
                     poem_content |-> r.poem_content,
                     cleaned_lines |-> r.cleaned_lines]
    /\ pc' = "scrape_done"
    /\ UNCHANGED <<page, arg, fs, trace>>

NextContent == ScrapePoemContentCall

SpecContent == InitContent /\ [][NextContent]_vars

(***************************************************************************)
(* Claims about scrape_poem_content (SpecContent)                          *)
(***************************************************************************)
Min(S) == CHOOSE x \in S : \A y \in S : x <= y

Scraped == pc = "scrape_done" /\ page.ok

\* C3 (as claimed): a body-locator text is used as the poem body only if it is
\* longer than 30 characters; when no body locator yields more than 30
\* characters the body is the main-content fallback container's text, and
\* when that container is absent the function returns nothing.
C3_BodyThreshold ==
    Scraped =>
        LET q == {i \in DOMAIN page.bodies : Len(page.bodies[i]) > 30}
        IN  IF q # {} THEN st.poem_content = page.bodies[Min(q)]
            ELSE IF page.main # None THEN st.poem_content = page.main
            ELSE result = None

\* C8 (as claimed): when an author element text begins, case-insensitively,
\* with "by " or "author:", the Author field does not begin with that prefix;
\* when no author locator yields text of length > 1 after prefix removal the
\* Author field is exactly "Unknown Author".
BeginsBy(t) == StartsWith(Lower(t), <<"b", "y", " ">>)
BeginsAuthorColon(t) == StartsWith(Lower(t), <<"a", "u", "t", "h", "o", "r", ":">>)

\* the text of an author element once one leading prefix and the whitespace
\* after it are taken away ("by", "author:" or "author", case-insensitively)
PrefixLen(t) ==
    IF StartsWith(Lower(t), <<"b", "y">>) THEN 2
    ELSE IF BeginsAuthorColon(t) THEN 7
    ELSE IF StartsWith(Lower(t), <<"a", "u", "t", "h", "o", "r">>) THEN 6
    ELSE 0
AfterOnePrefix(t) == LStripSet(Drop(t, PrefixLen(t)), Whitespace)
Yielding == {i \in DOMAIN page.authors : Len(AfterOnePrefix(page.authors[i])) > 1}

C8_PrefixAbsent ==
    Scraped =>
        /\ \A i \in DOMAIN page.authors :
              /\ BeginsBy(page.authors[i]) => ~BeginsBy(st.author)
              /\ BeginsAuthorColon(page.authors[i]) => ~BeginsAuthorColon(st.author)
        /\ Yielding = {} => st.author = UnknownAuthor

\* C8 (amended): the Author field is the first qualifying element text with
\* exactly one leading prefix and the whitespace after it removed, so it
\* begins with "by " or "author:" only when what follows the removed prefix
\* begins with it again; when no author locator yields text of length > 1
\* after prefix removal the Author field is exactly "Unknown Author".
C8_OnePrefixRemoved ==
    Scraped =>
        /\ Yielding # {} =>
              LET t == page.authors[Min(Yielding)]
              IN  /\ BeginsBy(t) => st.author = LStripSet(Drop(t, 3), Whitespace)
                  /\ BeginsAuthorColon(t) => st.author = LStripSet(Drop(t, 7), Whitespace)
                  /\ st.author = AfterOnePrefix(t)
                  /\ (BeginsBy(st.author) \/ BeginsAuthorColon(st.author)) =>
                        (BeginsBy(AfterOnePrefix(t)) \/ BeginsAuthorColon(AfterOnePrefix(t)))
        /\ Yielding = {} => st.author = UnknownAuthor

\* an author text with an upper-case "By " prefix was stored without it
C8_Witness ==
    /\ Scraped
    /\ Yielding # {}
    /\ page.authors[Min(Yielding)] = <<"B", "y", " ", "J", "o">>
    /\ st.author = <<"J", "o">>

\* C9 (as claimed): re-parsing the returned text, the first line after
\* "Title: " and the second line after "Author: " are exactly the title and
\* the author the extraction selected.
C9_RoundTrip ==
    (Scraped /\ result # None) =>
        LET lines == SplitNL(result)
        IN  /\ Len(lines) >= 2
            /\ lines[1] = <<"T", "i", "t", "l", "e", ":", " ">> \o st.actual_title
            /\ lines[2] = <<"A", "u", "t", "h", "o", "r", ":", " ">> \o st.author

\* C10 (as claimed): the cleaned lines are the stripped input lines, in order,
\* without the blank lines that come before the first non-blank input line and
\* without the noise lines; every other blank line is kept.
InputLines == [i \in DOMAIN SplitNL(st.poem_content) |-> Strip(SplitNL(st.poem_content)[i])]

Cleaned == Scraped /\ st.poem_content # None /\ st.poem_content # <<>>

C10_LeadingBlankOnly ==
    Cleaned =>
        LET L == InputLines
            keep == {i \in DOMAIN L :
                        /\ ~IsNoiseLine(L[i])
                        /\ ~(L[i] = <<>> /\ \A j \in 1..(i - 1) : L[j] = <<>>)}
        IN  st.cleaned_lines = PickFrom(L, keep, 1)

\* C10 (amended): the cleaned lines are the stripped input lines, in order,
\* without the noise lines and without the blank lines that come before the
\* first kept line (the first line that is neither blank nor noise); every
\* blank line after the first kept line is preserved.
C10_BlankBeforeFirstKept ==
    Cleaned =>
        LET L == InputLines
            keep == {i \in DOMAIN L :
                        /\ ~IsNoiseLine(L[i])
                        /\ ~(L[i] = <<>> /\
                             \A j \in 1..(i - 1) : L[j] = <<>> \/ IsNoiseLine(L[j]))}
        IN  st.cleaned_lines = PickFrom(L, keep, 1)

\* a noise line, a blank line dropped because nothing was kept before it, a
\* kept line, an inner blank line that is preserved, a kept line
C10_Witness ==
    /\ Cleaned
    /\ Len(InputLines) = 5
    /\ IsNoiseLine(InputLines[1])
    /\ InputLines[2] = <<>>
    /\ InputLines[4] = <<>>
    /\ st.cleaned_lines = <<InputLines[3], <<>>, InputLines[5]>>

(***************************************************************************)
(* Link extraction: extract_poems_from_theme, extract_poems_from_author    *)
(*                                                                         *)
(* A listing page is [ok, links]: whether get_page returned a response and *)
(* the page's <a> elements in document order.  A link is                   *)
(*   href : its href attribute                                             *)
(*   text : its get_text(strip=True)                                       *)
(*   feat : the structural features the selectors test (its classes and    *)
(*          the containers it sits in)                                     *)
(***************************************************************************)
base_url == <<"h", "t", "t", "p", "s", ":", "/", "/", "w", "w", "w", ".", "p", "o", "e", "t", "r", "y", "f", "o", "u", "n", "d", "a", "t", "i", "o", "n", ".", "o", "r", "g">>

\* urllib.parse.urljoin(self.base_url, href): an href with a scheme is kept,
\* a path is resolved against the site root
urljoin(base, href) ==
    IF Contains(href, <<":", "/", "/">>) THEN href
    ELSE IF StartsWith(href, <<"/">>) THEN base \o href
    ELSE base \o <<"/">> \o href

\* the elements soup.select(selector) returns, in document order
Selected(links, matching) == PickFrom(links, matching, 1)

\* poem_selectors of extract_poems_from_theme, by position
ThemeSelects(k, el) ==
    CASE k = 1 -> "link-red" \in el.feat /\ Contains(el.href, <<"/", "p", "o", "e", "m", "s">>)
      [] k = 2 -> "link-underline-on" \in el.feat /\ Contains(el.href, <<"/", "p", "o", "e", "m", "s">>)
      [] k = 3 -> "h3" \in el.feat /\ Contains(el.href, <<"/", "p", "o", "e", "m", "s">>)
      [] k = 4 -> Contains(el.href, <<"/", "p", "o", "e", "t", "r", "y", "m", "a", "g", "a", "z", "i", "n", "e", "/", "p", "o", "e", "m", "s", "/">>)
      [] k = 5 -> Contains(el.href, <<"/", "p", "o", "e", "m", "s", "/">>)

\* the (selector, element) visits of the two nested loops, in order
ThemeVisits(links) ==
    Concat([k \in 1..5 |->
              Selected(links, {i \in DOMAIN links : ThemeSelects(k, links[i])})])

theme_skip_words ==
    {<<"m", "o", "r", "e">>, <<"b", "r", "o", "w", "s", "e">>, <<"s", "e", "a", "r", "c", "h">>, <<"f", "i", "l", "t", "e", "r">>, <<"s", "o", "r", "t">>, <<"n", "e", "x", "t">>,
     <<"p", "r", "e", "v", "i", "o", "u", "s">>, <<"p", "a", "g", "e">>}

\* the title a theme-page link is stored under, None when the link is skipped
ThemeTitle(el) ==
    IF ~Contains(el.href, <<"/", "p", "o", "e", "m", "s", "/">>) THEN None
    ELSE IF el.text = <<>> \/ Len(el.text) < 3 THEN None
    ELSE LET poem_title == StripP1(el.text)
         IN  IF \E word \in theme_skip_words : Contains(Lower(poem_title), word)
             THEN None
             ELSE poem_title

\* `any(p['url'] == href for p in poems)`: comparing the raw href
AlreadyListedByHref(poems, full_url, href) ==
    \E i \in DOMAIN poems : poems[i].url = href

\* `any(p['url'] == full_url for p in poems)`
AlreadyListed(poems, full_url, href) ==
    \E i \in DOMAIN poems : poems[i].url = full_url

\* the append guarded by the duplicate test
AddPoem(poems, poem_title, href) ==
    LET full_url == urljoin(base_url, href)
    IN  IF AlreadyListed(poems, full_url, href) THEN poems
        ELSE Append(poems, [title |-> poem_title, url |-> full_url])

\* the loop body over the visited elements: titles[i] is the title element i
\* is stored under, None when the element is skipped (`continue`)
RECURSIVE LinkLoop(_, _, _)
LinkLoop(visits, titles, poems) ==
    IF visits = <<>> THEN poems
    ELSE IF Head(titles) = None
    THEN LinkLoop(Tail(visits), Tail(titles), poems)
    ELSE LinkLoop(Tail(visits), Tail(titles),
                  AddPoem(poems, Head(titles), Head(visits).href))

ThemeLoop(visits) ==
    LinkLoop(visits, [i \in DOMAIN visits |-> ThemeTitle(visits[i])], <<>>)

extract_poems_from_theme(pg) ==
    IF ~pg.ok THEN <<>> ELSE ThemeLoop(ThemeVisits(pg.links))

\* poem_selectors of extract_poems_from_author, by position
AuthorSelects(k, el) ==
    /\ Contains(el.href, <<"/", "p", "o", "e", "m", "s", "/">>)
    /\ CASE k = 1 -> "c-feature-hd" \in el.feat
         [] k = 2 -> "c-feature-bd" \in el.feat
         [] k = 3 -> "o-title" \in el.feat
         [] k = 4 -> "h3.c-feature-hd" \in el.feat
         [] k = 5 -> "h4.c-feature-hd" \in el.feat
         [] k = 6 -> "c-poem-list" \in el.feat
         [] k = 7 -> "o-collections" \in el.feat

AuthorVisits(links) ==
    Concat([k \in 1..7 |->
              Selected(links, {i \in DOMAIN links : AuthorSelects(k, links[i])})])

author_skip_words ==
    {<<"m", "o", "r", "e">>, <<"b", "r", "o", "w", "s", "e">>, <<"s", "e", "a", "r", "c", "h">>, <<"f", "i", "l", "t", "e", "r">>, <<"s", "o", "r", "t">>, <<"n", "e", "x", "t">>,
     <<"p", "r", "e", "v", "i", "o", "u", "s">>, <<"p", "a", "g", "e">>, <<"v", "i", "e", "w", " ", "a", "l", "l">>, <<"s", "e", "e", " ", "a", "l", "l">>, <<"r", "e", "a", "d", " ", "m", "o", "r", "e">>,
     <<"c", "o", "n", "t", "i", "n", "u", "e", " ", "r", "e", "a", "d", "i", "n", "g">>, <<"s", "h", "a", "r", "e">>, <<"p", "r", "i", "n", "t">>, <<"p", "o", "e", "m", "s", " ", "b", "y">>, <<"a", "b", "o", "u", "t">>,
     <<"b", "i", "o", "g", "r", "a", "p", "h", "y">>, <<"c", "o", "n", "t", "a", "c", "t">>, <<"s", "u", "b", "s", "c", "r", "i", "b", "e">>, <<"n", "e", "w", "s", "l", "e", "t", "t", "e", "r">>, <<"g", "u", "i", "d", "e">>,
     <<"g", "u", "i", "d", "e", "s">>, <<"a", "l", "l", " ", "p", "o", "e", "m", "s">>, <<"p", "o", "e", "m", " ", "o", "f", " ", "t", "h", "e", " ", "d", "a", "y">>, <<"d", "a", "i", "l", "y", " ", "p", "o", "e", "m">>,
     <<"f", "e", "a", "t", "u", "r", "e", "d">>, <<"c", "o", "l", "l", "e", "c", "t", "i", "o", "n">>, <<"a", "n", "t", "h", "o", "l", "o", "g", "y">>, <<"a", "r", "c", "h", "i", "v", "e">>,
     <<"b", "r", "o", "w", "s", "e", " ", "b", "y">>, <<"c", "a", "t", "e", "g", "o", "r", "y">>, <<"t", "h", "e", "m", "e">>, <<"p", "o", "p", "u", "l", "a", "r", " ", "p", "o", "e", "m", "s">>,
     <<"c", "l", "a", "s", "s", "i", "c", " ", "p", "o", "e", "m", "s">>, <<"r", "e", "c", "e", "n", "t", " ", "p", "o", "e", "m", "s">>, <<"n", "e", "w", " ", "p", "o", "e", "m", "s">>}

author_skip_phrases ==
    {<<"v", "i", "e", "w", " ", "a", "l", "l", " ", "p", "o", "e", "m", "s", " ", "b", "y">>, <<"b", "r", "o", "w", "s", "e", " ", "p", "o", "e", "m", "s", " ", "b", "y">>, <<"m", "o", "r", "e", " ", "p", "o", "e", "m", "s", " ", "b", "y">>,
     <<"s", "e", "e", " ", "m", "o", "r", "e">>, <<"r", "e", "a", "d", " ", "a", "l", "l">>, <<"p", "o", "e", "m", " ", "g", "u", "i", "d", "e", "s">>, <<"p", "o", "e", "m", " ", "g", "u", "i", "d", "e">>,
     <<"a", "l", "l", " ", "p", "o", "e", "m", "s">>, <<"p", "o", "e", "m", " ", "o", "f", " ", "t", "h", "e", " ", "d", "a", "y">>, <<"p", "o", "e", "m", "s", " ", "o", "f", " ", "t", "h", "e", " ", "d", "a", "y">>,
     <<"d", "a", "i", "l", "y", " ", "p", "o", "e", "m", "s">>, <<"f", "e", "a", "t", "u", "r", "e", "d", " ", "p", "o", "e", "m", "s">>, <<"p", "o", "p", "u", "l", "a", "r", " ", "p", "o", "e", "m", "s">>,
     <<"c", "l", "a", "s", "s", "i", "c", " ", "p", "o", "e", "m", "s">>, <<"r", "e", "c", "e", "n", "t", " ", "p", "o", "e", "m", "s">>, <<"n", "e", "w", " ", "p", "o", "e", "m", "s">>, <<"b", "r", "o", "w", "s", "e", " ", "a", "l", "l">>,
     <<"v", "i", "e", "w", " ", "m", "o", "r", "e">>, <<"s", "e", "e", " ", "a", "l", "l", " ", "p", "o", "e", "m", "s">>, <<"a", "l", "l", " ", "p", "o", "e", "t", "r", "y">>}

Digits == {"0", "1", "2", "3", "4", "5", "6", "7", "8", "9"}

\* str.isdigit()
IsDigit(s) == s # <<>> /\ \A i \in DOMAIN s : s[i] \in Digits

\* the skip-word, skip-phrase and numeric/navigation-word tests shared by the
\* two passes of extract_poems_from_author
AuthorNoise(poem_title) ==
    \/ \E word \in author_skip_words : Contains(Lower(poem_title), word)
    \/ \E phrase \in author_skip_phrases : Contains(Lower(poem_title), phrase)
    \/ IsDigit(poem_title)
    \/ Lower(poem_title) \in {<<"m", "o", "r", "e">>, <<"n", "e", "x", "t">>, <<"p", "r", "e", "v">>, <<"h", "o", "m", "e">>}

\* the title an author-page link is stored under by the primary pass
AuthorTitle(el) ==
    IF el.href = <<>> \/ ~Contains(el.href, <<"/", "p", "o", "e", "m", "s", "/">>) THEN None
    ELSE IF el.text = <<>> \/ Len(el.text) < 3 THEN None
    ELSE LET poem_title == StripP1(el.text)
         IN  IF AuthorNoise(poem_title) \/ Len(poem_title) < 5 THEN None
             ELSE poem_title

\* the title an author-page link is stored under by the broader pass
BroaderTitle(el) ==
    IF el.href = <<>> \/ ~Contains(el.href, <<"/", "p", "o", "e", "m", "s", "/">>) THEN None
    ELSE IF "nav-parent" \in el.feat THEN None
    ELSE IF el.text = <<>> \/ Len(el.text) < 5 THEN None
    ELSE LET poem_title == StripP1(el.text)
         IN  IF AuthorNoise(poem_title) THEN None ELSE poem_title

PrimaryLoop(visits) ==
    LinkLoop(visits, [i \in DOMAIN visits |-> AuthorTitle(visits[i])], <<>>)

BroaderLoop(visits) ==
    LinkLoop(visits, [i \in DOMAIN visits |-> BroaderTitle(visits[i])], <<>>)

\* soup.select('a[href*="/poems/"]')
BroaderVisits(links) ==
    Selected(links, {i \in DOMAIN links :
                        Contains(links[i].href, <<"/", "p", "o", "e", "m", "s", "/">>)})

extract_poems_from_author(pg) ==
    IF ~pg.ok THEN <<>>
    ELSE LET poems == PrimaryLoop(AuthorVisits(pg.links))
         IN  IF poems = <<>> THEN BroaderLoop(BroaderVisits(pg.links)) ELSE poems

(***************************************************************************)
(* Specification SpecLinks: one call of extract_poems_from_theme or of     *)
(* extract_poems_from_author on a listing page                             *)
(***************************************************************************)
MaxLinks == 3

Link(href, text, feat) == [href |-> href, text |-> text, feat |-> feat]

\* one poem under a relative and under an absolute href, a second poem, links
\* with a title below the floors, in a navigation container, outside /poems/,
\* with the magazine prefix and with a stop-word
Links ==
    {Link(<<"/", "p", "o", "e", "m", "s", "/", "1">>, <<"L", "e", "a", "v", "e", "s">>, {}),
     Link(<<"/", "p", "o", "e", "m", "s", "/", "1">>, <<"L", "e", "a", "v", "e", "s">>, {"link-red", "o-title"}),
     Link(<<"/", "p", "o", "e", "m", "s", "/", "1">>, <<"a", "b">>, {"link-red", "o-title"}),
     Link(<<"h", "t", "t", "p", "s", ":", "/", "/", "w", "w", "w", ".", "p", "o", "e", "t", "r", "y", "f", "o", "u", "n", "d", "a", "t", "i", "o", "n", ".", "o", "r", "g", "/", "p", "o", "e", "m", "s", "/", "1">>, <<"A", "u", "t", "u", "m", "n">>, {}),
     Link(<<"h", "t", "t", "p", "s", ":", "/", "/", "w", "w", "w", ".", "p", "o", "e", "t", "r", "y", "f", "o", "u", "n", "d", "a", "t", "i", "o", "n", ".", "o", "r", "g", "/", "p", "o", "e", "m", "s", "/", "1">>, <<"A", "u", "t", "u", "m", "n">>, {"link-red", "o-title"}),
     Link(<<"/", "p", "o", "e", "m", "s", "/", "2">>, <<"L", "e", "a", "v", "e", "s">>, {}),
     Link(<<"/", "p", "o", "e", "m", "s", "/", "2">>, <<"L", "e", "a", "v", "e", "s">>, {"link-red", "o-title"}),
     Link(<<"/", "p", "o", "e", "m", "s", "/", "2">>, <<"L", "e", "a", "v", "e", "s">>, {"nav-parent"}),
     Link(<<"/", "p", "o", "e", "m", "s">>, <<"L", "e", "a", "v", "e", "s">>, {"link-red"}),
     Link(<<"/", "p", "o", "e", "m", "s", "/", "2">>, <<"P", "1", " ", "I", "t">>, {}),
     Link(<<"/", "p", "o", "e", "m", "s", "/", "1">>, <<"M", "o", "r", "e", " ", "p", "o", "e", "m", "s">>, {"h3", "c-poem-list"}),
     Link(<<"/", "p", "o", "e", "t", "r", "y", "m", "a", "g", "a", "z", "i", "n", "e", "/", "p", "o", "e", "m", "s", "/", "3">>, <<"p", "1", "A", "t", " ", "S", "e", "a">>, {})}

ListingPages ==
    {[ok |-> TRUE, links |-> l] : l \in SeqUpTo(Links, MaxLinks)}
    \cup {[ok |-> FALSE, links |-> <<>>]}

InitLinks ==
    /\ pc = "links_ready"
    /\ page \in ListingPages
    /\ arg = [mode |-> "none"]
    /\ result = <<>>
    /\ fs = <<>>
    /\ st = <<>>
    /\ trace = <<>>

ExtractThemeCall ==
    /\ pc = "links_ready"
    /\ result' = extract_poems_from_theme(page)
    /\ arg' = [mode |-> "theme"]
    /\ pc' = "links_done"
    /\ UNCHANGED <<page, fs, st, trace>>

ExtractAuthorCall ==
    /\ pc = "links_ready"
    /\ result' = extract_poems_from_author(page)
    /\ arg' = [mode |-> "author"]
    /\ pc' = "links_done"
    /\ UNCHANGED <<page, fs, st, trace>>

NextLinks == ExtractThemeCall \/ ExtractAuthorCall

SpecLinks == InitLinks /\ [][NextLinks]_vars

(***************************************************************************)
(* Claims about link extraction (SpecLinks)                                *)
(***************************************************************************)
\* the candidates a pass accepts, in the order the loops reach them, before
\* any duplicate is dropped
Accepted(visits, titles) ==
    PickFrom([i \in DOMAIN visits |->
                 [title |-> titles[i], url |-> urljoin(base_url, visits[i].href)]],
             {i \in DOMAIN visits : titles[i] # None}, 1)

ThemeAccepted ==
    LET v == ThemeVisits(page.links)
    IN  Accepted(v, [i \in DOMAIN v |-> ThemeTitle(v[i])])

PrimaryAccepted ==
    LET v == AuthorVisits(page.links)
    IN  Accepted(v, [i \in DOMAIN v |-> AuthorTitle(v[i])])

BroaderAccepted ==
    LET v == BroaderVisits(page.links)
    IN  Accepted(v, [i \in DOMAIN v |-> BroaderTitle(v[i])])

SeenByCall ==
    IF ~page.ok THEN <<>>
    ELSE IF arg.mode = "theme" THEN ThemeAccepted
    ELSE IF PrimaryAccepted # <<>> THEN PrimaryAccepted
    ELSE BroaderAccepted

\* the entries of seen whose URL occurs at no earlier position
FirstSeen(seen) ==
    PickFrom(seen, {i \in DOMAIN seen :
                       \A j \in 1..(i - 1) : seen[j].url # seen[i].url}, 1)

\* C2: the list returned by extract_poems_from_theme and by
\* extract_poems_from_author (primary pass and broader pass alike) holds no
\* two entries with the same resolved absolute URL, and its entries are in the
\* order in which their URL was first seen as a candidate.
C2_DedupFirstSeen ==
    pc = "links_done" =>
        /\ \A i, j \in DOMAIN result : result[i].url = result[j].url => i = j
        /\ result = FirstSeen(SeenByCall)

\* a relative and an absolute href of one poem, a second poem between them:
\* two entries are returned, the first-seen URL first
C2_WitnessTheme ==
    /\ pc = "links_done"
    /\ arg.mode = "theme"
    /\ Len(page.links) = 3
    /\ Len(SeenByCall) >= 3
    /\ Len(result) = 2
    /\ result[1].url = <<"h", "t", "t", "p", "s", ":", "/", "/", "w", "w", "w", ".", "p", "o", "e", "t", "r", "y", "f", "o", "u", "n", "d", "a", "t", "i", "o", "n", ".", "o", "r", "g", "/", "p", "o", "e", "m", "s", "/", "1">>
    /\ page.links[1].href = <<"/", "p", "o", "e", "m", "s", "/", "1">>
    /\ page.links[3].href = <<"h", "t", "t", "p", "s", ":", "/", "/", "w", "w", "w", ".", "p", "o", "e", "t", "r", "y", "f", "o", "u", "n", "d", "a", "t", "i", "o", "n", ".", "o", "r", "g", "/", "p", "o", "e", "m", "s", "/", "1">>

\* the same in the broader pass of extract_poems_from_author
C2_Witness ==
    /\ pc = "links_done"
    /\ arg.mode = "author"
    /\ PrimaryAccepted = <<>>
    /\ Len(BroaderAccepted) = 3
    /\ Len(result) = 2
    /\ result[1].url = <<"h", "t", "t", "p", "s", ":", "/", "/", "w", "w", "w", ".", "p", "o", "e", "t", "r", "y", "f", "o", "u", "n", "d", "a", "t", "i", "o", "n", ".", "o", "r", "g", "/", "p", "o", "e", "m", "s", "/", "1">>
    /\ page.links[1].href = <<"/", "p", "o", "e", "m", "s", "/", "1">>
    /\ page.links[3].href = <<"h", "t", "t", "p", "s", ":", "/", "/", "w", "w", "w", ".", "p", "o", "e", "t", "r", "y", "f", "o", "u", "n", "d", "a", "t", "i", "o", "n", ".", "o", "r", "g", "/", "p", "o", "e", "m", "s", "/", "1">>

(***************************************************************************)
(* The batch orchestrators: scrape_poems_by_theme and                      *)
(* scrape_poems_by_author_range                                            *)
(*                                                                         *)
(* The site (variable page) maps a URL to the listing page or poem page it *)
(* serves; a URL it does not serve is a fetch failure.  fs is the tree     *)
(* under ./poems.  st holds the locals of the running call; trace lists    *)
(* its fetches, sleeps, writes and the summary, in order.                  *)
(***************************************************************************)
IsLetter(c) ==
    \E i \in 1..Len(Uppers) : Uppers[i] = c \/ Lowers[i] = c

\* str.upper() on one character
UpperChar(c) ==
    IF \E i \in 1..Len(Lowers) : Lowers[i] = c
    THEN Uppers[CHOOSE i \in 1..Len(Lowers) : Lowers[i] = c]
    ELSE c

\* str.title(): a letter after a non-letter is upper-cased, any other lower-cased
TitleCase(s) ==
    [i \in 1..Len(s) |->
        IF i = 1 \/ ~IsLetter(s[i - 1]) THEN UpperChar(s[i]) ELSE LowerChar(s[i])]

\* s.replace(a, b) for single characters
ReplaceChar(s, a, b) == [i \in 1..Len(s) |-> IF s[i] = a THEN b ELSE s[i]]

\* s.split(sep)[-1]: what follows the last occurrence of sep (s when there is none)
AfterLast(s, sep) ==
    LET at == {i \in 0..(Len(s) - Len(sep)) : SubSeq(s, i + 1, i + Len(sep)) = sep}
    IN  IF at = {} THEN s
        ELSE Drop(s, (CHOOSE i \in at : \A k \in at : k <= i) + Len(sep))

extract_author_name_from_url(author_url) ==
    TitleCase(ReplaceChar(AfterLast(author_url, <<"/", "p", "e", "o", "p", "l", "e", "/">>), "-", " "))

\* Path('poems') / 'authors' / self.clean_filename(author_name)
AuthorFolder(author_url) ==
    <<"p", "o", "e", "m", "s", "/", "a", "u", "t", "h", "o", "r", "s", "/">> \o clean_filename(extract_author_name_from_url(author_url))

\* f"https://www.poetryfoundation.org/categories/{theme_name.lower().replace(' ', '-')}"
ThemeUrl(theme_name) ==
    <<"h", "t", "t", "p", "s", ":", "/", "/", "w", "w", "w", ".", "p", "o", "e", "t", "r", "y", "f", "o", "u", "n", "d", "a", "t", "i", "o", "n", ".", "o", "r", "g", "/", "c", "a", "t", "e", "g", "o", "r", "i", "e", "s", "/">>
        \o ReplaceChar(Lower(theme_name), " ", "-")

\* Path('poems') / self.clean_filename(theme_name)
ThemeFolder(theme_name) == <<"p", "o", "e", "m", "s", "/">> \o clean_filename(theme_name)

FailedPage == [ok |-> FALSE, links |-> <<>>, titles |-> <<>>, bodies |-> <<>>,
               main |-> None, authors |-> <<>>]

\* get_page(url): the page served, FailedPage (the None of the source) when
\* the request fails or the site does not serve the URL
get_page(site, url, fails) ==
    IF fails \/ url \notin DOMAIN site THEN FailedPage ELSE site[url]

Event(ev, url, row) == [ev |-> ev, url |-> url, row |-> row]

\* time.sleep(2) between poems of an author, time.sleep(3) between poems of
\* a theme and between authors
AuthorPoemDelay == 2
ThemePoemDelay == 3
AuthorDelay == 3
Sleep(seconds) == Event("sleep", <<>>, seconds)

\* the number of environment failures (a failed request, a failed mkdir, a
\* failed open or write) injected into one run
MaxFaults == 1

\* the two branches of an operation that can fail, while failures remain
Outcomes(faults) == IF faults < MaxFaults THEN {TRUE, FALSE} ELSE {FALSE}
IoOutcomesLeft(faults) == IF faults < MaxFaults THEN IoOutcomes ELSE {"ok"}
Spent(faults, failed) == IF failed THEN faults + 1 ELSE faults

\* the row range after `if start_row < 1` / `if end_row is None or end_row > total_rows`
ClampStart(start_row) == IF start_row < 1 THEN 1 ELSE start_row
ClampEnd(end_given, end_row, total_rows) ==
    IF ~end_given \/ end_row > total_rows THEN total_rows ELSE end_row

\* `range(start_row, end_row)`: the adjustment to 0-based indexing forgotten
FirstIndexOneBased(start_row) == start_row

\* `range(start_row - 1, end_row)`: the index of the first row processed
FirstIndex(start_row) == start_row - 1

\* main(): the row range handed to scrape_poems_by_author_range for the
\* numbers the operator typed (an empty end is total_authors)
MainRange(start_in, end_given, end_in, total_authors) ==
    LET e0 == IF end_given THEN end_in ELSE total_authors
        s1 == IF start_in < 1 \/ start_in > total_authors THEN 1 ELSE start_in
        e1 == IF e0 < s1 \/ e0 > total_authors THEN total_authors ELSE e0
    IN  [start_row |-> s1, end_given |-> TRUE, end_row |-> e1]

\* one pass of the poem loop body in author mode for candidate poem, with the
\* outcomes of its request and file operations: the folder, the events and
\* whether the poem was saved
AuthorPoemBody(site, files, folder, poem, fetch_fails, io) ==
    LET filename == clean_filename(poem.title)
    IN  IF Exists(files, FilePath(folder, filename))
        THEN [fs |-> files, events |-> <<>>, saved |-> FALSE, skipped |-> TRUE]
        ELSE LET c == scrape_poem_content(get_page(site, poem.url, fetch_fails),
                                          poem.title).ret
                 r == IF c # None THEN save_poem(c, files, folder, filename, io)
                      ELSE [ret |-> FALSE, fs |-> files, wrote |-> FALSE]
             IN  [fs |-> r.fs,
                  events |-> <<Event("fetch_poem", poem.url, 0)>>
                             \o (IF r.wrote THEN <<Event("write", filename, 0)>> ELSE <<>>)
                             \o <<Sleep(AuthorPoemDelay)>>,
                  saved |-> r.ret, skipped |-> FALSE]

\* the same for theme mode, which tests theme_folder / f"{poem['title']}.txt"
ThemePoemBody(site, files, folder, poem, fetch_fails, io) ==
    IF Exists(files, FilePath(folder, poem.title))
    THEN [fs |-> files, events |-> <<>>, saved |-> FALSE, skipped |-> TRUE]
    ELSE LET c == scrape_poem_content(get_page(site, poem.url, fetch_fails),
                                      poem.title).ret
             filename == clean_filename(poem.title)
             r == IF c # None THEN save_poem(c, files, folder, filename, io)
                  ELSE [ret |-> FALSE, fs |-> files, wrote |-> FALSE]
         IN  [fs |-> r.fs,
              events |-> <<Event("fetch_poem", poem.url, 0)>>
                         \o (IF r.wrote THEN <<Event("write", filename, 0)>> ELSE <<>>)
                         \o <<Sleep(ThemePoemDelay)>>,
              saved |-> r.ret, skipped |-> FALSE]

(***************************************************************************)
(* scrape_poems_by_author_range, one action per loop pass                  *)
(***************************************************************************)
\* the locals of a call that has not started
Locals(mode, theme_name, csv_exists, rows, start_row, end_given, end_row) ==
    [mode |-> mode, run |-> 1, theme_name |-> theme_name,
     csv_exists |-> csv_exists, rows |-> rows,
     start_arg |-> start_row, end_given |-> end_given, end_arg |-> end_row,
     start_row |-> start_row, end_row |-> end_row, total_rows |-> 0,
     i |-> 0, poems |-> <<>>, j |-> 1, folder |-> <<>>,
     authors_processed |-> 0, total_poems_saved |-> 0, author_poems_saved |-> 0,
     faults |-> 0, saved_before |-> {}, saved_now |-> {}]

\* lines 437-458: the file test, the header, the rows and the range
StartAuthorRange ==
    /\ pc = "call_author"
    /\ IF ~st.csv_exists
       THEN pc' = "returned" /\ UNCHANGED st
       ELSE /\ pc' = "author_loop"
            /\ st' = [st EXCEPT
                        !.total_rows = Len(st.rows),
                        !.start_row = ClampStart(st.start_arg),
                        !.end_row = ClampEnd(st.end_given, st.end_arg, Len(st.rows)),
                        !.i = FirstIndex(ClampStart(st.start_arg))]
    /\ UNCHANGED <<page, arg, result, fs, trace>>

InRange == st.i < st.end_row /\ st.i < Len(st.rows)

\* the cell row[0].strip() of the current row, <<>> for an empty row
CurrentUrl == IF st.rows[st.i + 1] = <<>> THEN <<>> ELSE Strip(st.rows[st.i + 1][1])

\* lines 465-471: `continue` on an empty row or a cell that is no http URL
SkipRow ==
    /\ pc = "author_loop" /\ InRange
    /\ st.rows[st.i + 1] = <<>> \/ ~StartsWith(CurrentUrl, <<"h", "t", "t", "p">>)
    /\ st' = [st EXCEPT !.i = @ + 1]
    /\ UNCHANGED <<pc, page, arg, result, fs, trace>>

\* lines 473-487: the author's folder and the poems of the author's page
AuthorStep ==
    /\ pc = "author_loop" /\ InRange
    /\ st.rows[st.i + 1] # <<>> /\ StartsWith(CurrentUrl, <<"h", "t", "t", "p">>)
    /\ \E mkdir_fails \in Outcomes(st.faults) :
         IF mkdir_fails
         THEN \* the exception reaches `except Exception`: message, return
              /\ pc' = "aborted"
              /\ st' = [st EXCEPT !.faults = @ + 1]
              /\ UNCHANGED trace
         ELSE \E fetch_fails \in Outcomes(st.faults) :
                LET poems == extract_poems_from_author(
                                 get_page(page, CurrentUrl, fetch_fails))
                    ev == Event("fetch_listing", CurrentUrl, st.i + 1)
                    made == Event("mkdir", AuthorFolder(CurrentUrl), st.i + 1)
                IN  /\ trace' = trace \o <<made, ev>>
                    /\ IF poems = <<>>
                       THEN /\ pc' = "author_loop"
                            /\ st' = [st EXCEPT !.i = @ + 1,
                                                !.faults = Spent(@, fetch_fails)]
                       ELSE /\ pc' = "author_poems"
                            /\ st' = [st EXCEPT !.poems = poems, !.j = 1,
                                                !.folder = AuthorFolder(CurrentUrl),
                                                !.author_poems_saved = 0,
                                                !.faults = Spent(@, fetch_fails)]
    /\ UNCHANGED <<page, arg, result, fs>>

\* lines 490-509: one pass of the poem loop
AuthorPoemStep ==
    /\ pc = "author_poems" /\ st.j <= Len(st.poems)
    /\ \E fetch_fails \in Outcomes(st.faults), io \in IoOutcomesLeft(st.faults) :
         LET b == AuthorPoemBody(page, fs, st.folder, st.poems[st.j], fetch_fails, io)
             failed == fetch_fails \/ io # "ok"
         IN  /\ b.skipped => ~failed
             /\ fetch_fails => io = "ok"
             /\ fs' = b.fs
             /\ trace' = trace \o b.events
             /\ st' = [st EXCEPT
                         !.j = @ + 1,
                         !.author_poems_saved = IF b.saved THEN @ + 1 ELSE @,
                         !.total_poems_saved = IF b.saved THEN @ + 1 ELSE @,
                         !.saved_now = IF b.saved
                                       THEN @ \cup {FilePath(st.folder,
                                                clean_filename(st.poems[st.j].title))}
                                       ELSE @,
                         !.faults = Spent(@, failed)]
    /\ UNCHANGED <<pc, page, arg, result>>

\* lines 511-515: the author is counted, then the delay between authors
AuthorDone ==
    /\ pc = "author_poems" /\ st.j > Len(st.poems)
    /\ st' = [st EXCEPT !.authors_processed = @ + 1, !.i = @ + 1]
    /\ trace' = Append(trace, Sleep(AuthorDelay))
    /\ pc' = "author_loop"
    /\ UNCHANGED <<page, arg, result, fs>>

\* lines 521-527: the summary
AuthorFinish ==
    /\ pc = "author_loop" /\ ~InRange
    /\ trace' = Append(trace, Event("summary", <<>>, st.total_poems_saved))
    /\ pc' = "done"
    /\ UNCHANGED <<page, arg, result, fs, st>>

(***************************************************************************)
(* scrape_poems_by_theme                                                   *)
(***************************************************************************)
\* line 252: `if not poems` is taken for the empty list
FoundNothingNever(poems) == FALSE

FoundNothing(poems) == poems = <<>>

\* lines 245-260: the theme's listing, the `return` without poems, the folder
StartTheme ==
    /\ pc = "call_theme"
    /\ \E fetch_fails \in Outcomes(st.faults) :
         LET url == ThemeUrl(st.theme_name)
             poems == extract_poems_from_theme(get_page(page, url, fetch_fails))
             folder == ThemeFolder(st.theme_name)
             fetched == Append(trace, Event("fetch_listing", url, 0))
         IN  IF FoundNothing(poems)
             THEN /\ pc' = "returned"
                  /\ trace' = fetched
                  /\ st' = [st EXCEPT !.poems = poems,
                                      !.faults = Spent(@, fetch_fails)]
             ELSE \E mkdir_fails \in Outcomes(Spent(st.faults, fetch_fails)) :
                    IF mkdir_fails
                    THEN \* nothing catches the exception of mkdir
                         /\ pc' = "crashed"
                         /\ trace' = fetched
                         /\ st' = [st EXCEPT !.poems = poems, !.faults = @ + 1]
                    ELSE /\ pc' = "theme_poems"
                         /\ trace' = Append(fetched, Event("mkdir", folder, 0))
                         /\ st' = [st EXCEPT !.poems = poems, !.j = 1,
                                             !.folder = folder,
                                             !.total_poems_saved = 0]
    /\ UNCHANGED <<page, arg, result, fs>>

\* lines 263-282: one pass of the poem loop
ThemePoemStep ==
    /\ pc = "theme_poems" /\ st.j <= Len(st.poems)
    /\ \E fetch_fails \in Outcomes(st.faults), io \in IoOutcomesLeft(st.faults) :
         LET b == ThemePoemBody(page, fs, st.folder, st.poems[st.j], fetch_fails, io)
             failed == fetch_fails \/ io # "ok"
         IN  /\ b.skipped => ~failed
             /\ fetch_fails => io = "ok"
             /\ fs' = b.fs
             /\ trace' = trace \o b.events
             /\ st' = [st EXCEPT
                         !.j = @ + 1,
                         !.total_poems_saved = IF b.saved THEN @ + 1 ELSE @,
                         !.saved_now = IF b.saved
                                       THEN @ \cup {FilePath(st.folder,
                                                clean_filename(st.poems[st.j].title))}
                                       ELSE @,
                         !.faults = Spent(@, failed)]
    /\ UNCHANGED <<pc, page, arg, result>>

\* lines 284-291: the summary
ThemeFinish ==
    /\ pc = "theme_poems" /\ st.j > Len(st.poems)
    /\ trace' = Append(trace, Event("summary", <<>>, st.total_poems_saved))
    /\ pc' = "done"
    /\ UNCHANGED <<page, arg, result, fs, st>>

\* the operator runs the same target again: the site and the files are as the
\* first run left them
RunAgain ==
    /\ pc = "done" /\ st.run = 1
    /\ pc' = IF st.mode = "theme" THEN "call_theme" ELSE "call_author"
    /\ st' = [Locals(st.mode, st.theme_name, st.csv_exists, st.rows,
                     st.start_arg, st.end_given, st.end_arg)
                EXCEPT !.run = 2, !.saved_before = st.saved_now]
    /\ trace' = <<>>
    /\ UNCHANGED <<page, arg, result, fs>>

(***************************************************************************)
(* The site and the specifications of the runs                             *)
(***************************************************************************)
AuthorAl == <<"h", "t", "t", "p", ":", "/", "/", "p", "f", ".", "o", "r", "g", "/", "p", "e", "o", "p", "l", "e", "/", "a", "l">>
AuthorBo == <<"h", "t", "t", "p", ":", "/", "/", "p", "f", ".", "o", "r", "g", "/", "p", "e", "o", "p", "l", "e", "/", "b", "o", "-", "l", "i">>

\* a listing with two poem links: the slug of the first title is the title
\* itself, the slug of the second is not
TwoPoems ==
    [ok |-> TRUE,
     links |-> <<Link(<<"/", "p", "o", "e", "m", "s", "/", "1">>, <<"L", "e", "a", "v", "e", "s">>, {}),
                 Link(<<"/", "p", "o", "e", "m", "s", "/", "2">>, <<"A", "t", " ", "S", "e", "a">>, {})>>]
NoPoems == [ok |-> TRUE, links |-> <<>>]

Poem1Url == urljoin(base_url, <<"/", "p", "o", "e", "m", "s", "/", "1">>)
Poem2Url == urljoin(base_url, <<"/", "p", "o", "e", "m", "s", "/", "2">>)

\* theme "love" and author al list the two poems, theme "war" and author bo
\* list none, and the site serves no page for any other theme
Site ==
    [u \in {ThemeUrl(<<"l", "o", "v", "e">>), ThemeUrl(<<"w", "a", "r">>),
            AuthorAl, AuthorBo, Poem1Url, Poem2Url} |->
        IF u \in {ThemeUrl(<<"l", "o", "v", "e">>), AuthorAl} THEN TwoPoems
        ELSE IF u \in {ThemeUrl(<<"w", "a", "r">>), AuthorBo} THEN NoPoems
        ELSE IF u = Poem1Url THEN PoemPage(TRUE, <<>>, <<Rep("b", 31)>>, None, <<>>)
        ELSE PoemPage(TRUE, <<>>, <<Rep("d", 31)>>, None, <<>>)]

ThemeNames == {<<"l", "o", "v", "e">>, <<"w", "a", "r">>}
CsvRows == {<<AuthorAl>>, <<AuthorBo>>, <<<<"n", "/", "a">>>>, <<>>}

MaxRunRows == 2
MaxRows == 5

InitRunVars ==
    /\ page = Site
    /\ arg = <<>>
    /\ result = <<>>
    /\ fs = <<>>
    /\ trace = <<>>

\* SpecRun: a theme run or an author run over a short list, run twice
InitRun ==
    /\ InitRunVars
    /\ \/ /\ pc = "call_theme"
          /\ \E theme_name \in ThemeNames :
               st = Locals("theme", theme_name, TRUE, <<>>, 1, FALSE, 0)
       \/ /\ pc = "call_author"
          /\ \E rows \in SeqUpTo(CsvRows, MaxRunRows), csv_exists \in BOOLEAN :
               /\ ~csv_exists => rows = <<>>
               /\ st = Locals("author", <<>>, csv_exists, rows, 1, FALSE, 0)

NextRun ==
    \/ StartAuthorRange
    \/ SkipRow
    \/ AuthorStep
    \/ AuthorPoemStep
    \/ AuthorDone
    \/ AuthorFinish
    \/ StartTheme
    \/ ThemePoemStep
    \/ ThemeFinish
    \/ RunAgain

SpecRun == InitRun /\ [][NextRun]_vars

\* SpecRange: scrape_poems_by_author_range over a list of up to MaxRows author
\* URLs with a row range: any range when called directly, the range main()
\* passes for the numbers typed otherwise
RangeInputs == (-1)..(MaxRows + 2)

InitRange ==
    /\ InitRunVars
    /\ pc = "call_author"
    /\ \E n \in 0..MaxRows, start_in \in RangeInputs, end_in \in RangeInputs,
          end_given \in BOOLEAN, via_main \in BOOLEAN :
         LET rows == [k \in 1..n |-> IF k % 3 = 1 THEN <<AuthorAl>> ELSE <<AuthorBo>>]
             r == IF via_main THEN MainRange(start_in, end_given, end_in, n)
                  ELSE [start_row |-> start_in, end_given |-> end_given,
                        end_row |-> IF end_given THEN end_in ELSE 0]
         IN  st = Locals("author", <<>>, TRUE, rows,
                         r.start_row, r.end_given, r.end_row)

NextRange ==
    \/ StartAuthorRange
    \/ AuthorStep
    \/ AuthorPoemStep
    \/ AuthorDone
    \/ AuthorFinish

SpecRange == InitRange /\ [][NextRange]_vars

(***************************************************************************)
(* Claims about the runs (SpecRun, SpecRange)                              *)
(***************************************************************************)
AtPoem == pc \in {"author_poems", "theme_poems"} /\ st.j <= Len(st.poems)

\* the artifact of the candidate the poem loop has reached: <directory>/<slug>.txt
ArtifactOfCurrent == FilePath(st.folder, clean_filename(st.poems[st.j].title))

\* C1 (as claimed): in both run modes, when the artifact <directory>/<slug>.txt
\* of the candidate the orchestrator reaches already exists, the pass fetches
\* nothing, writes nothing and leaves the poems-saved counter as it is (so a
\* second run over an unchanged target rewrites and re-counts nothing).
C1_SkipExisting ==
    [][(AtPoem /\ Exists(fs, ArtifactOfCurrent)) =>
          /\ fs' = fs
          /\ trace' = trace
          /\ st'.total_poems_saved = st.total_poems_saved]_vars

\* C1 restricted to author mode, where the existence test uses the slug
C1_SkipExistingAuthorMode ==
    [][(AtPoem /\ st.mode = "author" /\ Exists(fs, ArtifactOfCurrent)) =>
          /\ fs' = fs
          /\ trace' = trace
          /\ st'.total_poems_saved = st.total_poems_saved]_vars

Ended == pc \in {"done", "aborted", "crashed"}

Positions(ev) == {k \in DOMAIN trace : trace[k].ev = ev}

\* C5 (as claimed): no failure of a page fetch or of a directory/file
\* operation after scraping has begun ends the run: the failed poem is not
\* counted as saved, every remaining poem and author is still processed, and
\* the run ends with the summary.
C5_FailuresNotFatal ==
    Ended =>
        /\ pc = "done"
        /\ trace # <<>> /\ trace[Len(trace)].ev = "summary"
        /\ st.total_poems_saved = Cardinality(Positions("write"))
        /\ st.mode = "author" => ~InRange
        /\ st.mode = "theme" => st.j > Len(st.poems)

\* the rows whose author page was fetched, in the order of the fetches
RECURSIVE FetchedRows(_)
FetchedRows(events) ==
    IF events = <<>> THEN <<>>
    ELSE (IF Head(events).ev = "fetch_listing" THEN <<Head(events).row>> ELSE <<>>)
         \o FetchedRows(Tail(events))

RangeLow == IF st.start_arg > 1 THEN st.start_arg ELSE 1
RangeHigh ==
    IF st.end_given /\ st.end_arg < Len(st.rows) THEN st.end_arg ELSE Len(st.rows)
ExpectedRows == [k \in 1..(RangeHigh - RangeLow + 1) |-> RangeLow + k - 1]

AllRowsHttp ==
    \A k \in DOMAIN st.rows :
        st.rows[k] # <<>> /\ StartsWith(Strip(st.rows[k][1]), <<"h", "t", "t", "p">>)

\* C6: given a list of N rows that all hold http author URLs and a range
\* [start, end], scrape_poems_by_author_range fetches exactly the author pages
\* of rows max(start,1) .. min(end,N), each once and in list order: at every
\* moment the fetched rows are the first rows of that range, and at the
\* summary they are the whole range.
C6_RowRange ==
    (st.mode = "author" /\ pc # "call_author" /\ AllRowsHttp) =>
        LET got == FetchedRows(trace)
        IN  /\ Len(got) <= Len(ExpectedRows)
            /\ got = SubSeq(ExpectedRows, 1, Len(got))
            /\ \A k \in Positions("fetch_listing") :
                  trace[k].url = Strip(st.rows[trace[k].row][1])
            /\ pc = "done" => got = ExpectedRows

\* rows 3..5 of a five-row list, asked for with an end row beyond the list
C6_Witness ==
    /\ pc = "done"
    /\ Len(st.rows) = 5
    /\ st.start_arg = 3
    /\ st.end_given /\ st.end_arg > 5
    /\ FetchedRows(trace) = <<3, 4, 5>>

\* C7 (as claimed): between the page fetches of two authors processed
\* consecutively lies the between-authors delay, and between two consecutive
\* poem-page fetches lies a pacing delay, in both modes.
Consecutive(ev, p, q) ==
    /\ p \in Positions(ev) /\ q \in Positions(ev) /\ p < q
    /\ \A k \in (p + 1)..(q - 1) : trace[k].ev # ev

C7_PoemPacing ==
    \A p, q \in DOMAIN trace :
        Consecutive("fetch_poem", p, q) =>
            \E k \in (p + 1)..(q - 1) : trace[k].ev = "sleep"

C7_Pacing ==
    /\ \A p, q \in DOMAIN trace :
          Consecutive("fetch_listing", p, q) =>
              \E k \in (p + 1)..(q - 1) : trace[k] = Sleep(AuthorDelay)
    /\ C7_PoemPacing

\* C11: in theme mode, when the link extractor returns no candidates for the
\* theme's listing URL (the listing fetch failed, or the page lists nothing),
\* scrape_poems_by_theme stops: the step that fetched the listing creates no
\* directory, fetches no poem page, sleeps for no delay and writes no file,
\* and the call has returned.
C11_NoCandidatesStops ==
    [][(pc = "call_theme" /\ st'.poems = <<>>) =>
          /\ pc' = "returned"
          /\ fs' = fs
          /\ trace' = Append(trace, Event("fetch_listing", ThemeUrl(st.theme_name), 0))]_vars

\* the call has returned after a listing that loaded but lists no poem
C11_WitnessEmptyListing ==
    /\ pc = "returned" /\ st.mode = "theme"
    /\ st.faults = 0
    /\ Len(trace) = 1 /\ trace[1].ev = "fetch_listing"

\* the second run of a theme returns after its listing fetch failed, with the
\* files of the first run in place
C11_Witness ==
    /\ pc = "returned" /\ st.mode = "theme"
    /\ st.run = 2 /\ st.faults = 1 /\ fs # <<>>
    /\ Len(trace) = 1 /\ trace[1].ev = "fetch_listing"

(***************************************************************************)
(* SpecClean: clean_filename applied to a name, then to its own output     *)
(***************************************************************************)
MaxNameLen == 5

NameChars == {"a", "_", " ", "\n", "/", "?"}

Names == SeqUpTo(NameChars, MaxNameLen)

InitClean ==
    /\ pc = "clean_ready"
    /\ page = None
    /\ arg \in [name : Names]
    /\ result = None
    /\ fs = <<>>
    /\ st = [first |-> None]
    /\ trace = <<>>

\* filename = self.clean_filename(poem['title'])
CleanFilenameCall ==
    /\ pc = "clean_ready"
    /\ result' = clean_filename(arg.name)
    /\ st' = [st EXCEPT !.first = clean_filename(arg.name)]
    /\ pc' = "clean_done"
    /\ UNCHANGED <<page, arg, fs, trace>>

\* clean_filename on a name that is already a slug
CleanFilenameAgain ==
    /\ pc = "clean_done"
    /\ result' = clean_filename(result)
    /\ pc' = "clean_twice"
    /\ UNCHANGED <<page, arg, fs, st, trace>>

NextClean == CleanFilenameCall \/ CleanFilenameAgain

SpecClean == InitClean /\ [][NextClean]_vars

\* The slug as the claim describes it, position by position: an unsafe
\* character becomes '_'; the first character of a whitespace run becomes '_'
\* and the rest of the run disappears; the result is cut down to the span from
\* its first to its last character other than '_'.
Replaced(name) ==
    [i \in 1..Len(name) |->
        IF name[i] \in UnsafeChars THEN "_"
        ELSE IF name[i] \in Whitespace
             THEN (IF i > 1 /\ name[i - 1] \in Whitespace THEN "gone" ELSE "_")
             ELSE name[i]]

Collapsed(name) == SelectSeq(Replaced(name), LAMBDA c : c # "gone")

Trimmed(s) ==
    LET keep == {i \in 1..Len(s) : s[i] # "_"}
    IN  IF keep = {} THEN <<>>
        ELSE SubSeq(s, CHOOSE i \in keep : \A j \in keep : i <= j,
                       CHOOSE i \in keep : \A j \in keep : i >= j)

DescribedSlug(name) == Trimmed(Collapsed(name))

\* C12: for every input string, clean_filename returns a string with none of
\* the characters < > : " / \ | ? *, with no whitespace, that neither starts
\* nor ends with an underscore; it is the input with each of those characters
\* replaced by '_', each whitespace run replaced by one '_' and the leading and
\* trailing underscores trimmed; and clean_filename of that output is that
\* output.
C12_CleanFilename ==
    /\ pc \in {"clean_done", "clean_twice"} =>
          /\ \A i \in 1..Len(st.first) : st.first[i] \notin UnsafeChars \cup Whitespace
          /\ st.first # <<>> => st.first[1] # "_" /\ st.first[Len(st.first)] # "_"
          /\ st.first = DescribedSlug(arg.name)
    /\ pc = "clean_twice" => result = st.first

\* a name with an unsafe character at its head and a two-character whitespace
\* run inside: the slug is "a_a", and cleaning the slug again leaves it
C12_Witness ==
    /\ pc = "clean_twice"
    /\ arg.name = <<"/", "a", " ", "\n", "a">>
    /\ st.first = <<"a", "_", "a">>
    /\ result = <<"a", "_", "a">>

\* the titles of the candidates a call returned are all at least floor long
TitlesAtLeast(floor) == \A i \in DOMAIN result : Len(result[i].title) >= floor

\* the primary pass of extract_poems_from_author tests the floor of 5 a second
\* time after the 'p1' prefix is removed: its stored titles keep the floor
C13_PrimaryFloor ==
    (pc = "links_done" /\ arg.mode = "author" /\ PrimaryAccepted # <<>>) =>
        TitlesAtLeast(5)

\* C13 (as claimed): every candidate returned has a stored title (the 'p1'
\* prefix removed) of at least 3 characters from extract_poems_from_theme and
\* of at least 5 characters from extract_poems_from_author, in its primary
\* pass and in its broader pass.
C13_TitleFloor ==
    pc = "links_done" =>
        /\ arg.mode = "theme" => TitlesAtLeast(3)
        /\ arg.mode = "author" => TitlesAtLeast(5)

\* C13 for extract_poems_from_author alone
C13_AuthorFloor ==
    (pc = "links_done" /\ arg.mode = "author") => TitlesAtLeast(5)

(***************************************************************************)
(* SpecCollide: runs over listings whose two poems share one slug          *)
(***************************************************************************)
AuthorCy == <<"h", "t", "t", "p", ":", "/", "/", "p", "f", ".", "o", "r", "g", "/", "p", "e", "o", "p", "l", "e", "/", "c", "y">>
AuthorDi == <<"h", "t", "t", "p", ":", "/", "/", "p", "f", ".", "o", "r", "g", "/", "p", "e", "o", "p", "l", "e", "/", "d", "i">>

\* two poems whose titles clean_filename maps to "At_Sea": the title that is
\* not its own slug comes first in SeaFirst and second in SlugFirst
SeaFirst ==
    [ok |-> TRUE,
     links |-> <<Link(<<"/", "p", "o", "e", "m", "s", "/", "1">>, <<"A", "t", " ", "S", "e", "a">>, {}),
                 Link(<<"/", "p", "o", "e", "m", "s", "/", "2">>, <<"A", "t", "_", "S", "e", "a">>, {})>>]
SlugFirst ==
    [ok |-> TRUE,
     links |-> <<Link(<<"/", "p", "o", "e", "m", "s", "/", "1">>, <<"A", "t", "_", "S", "e", "a">>, {}),
                 Link(<<"/", "p", "o", "e", "m", "s", "/", "2">>, <<"A", "t", " ", "S", "e", "a">>, {})>>]

CollideSite ==
    [u \in {ThemeUrl(<<"s", "e", "a">>), ThemeUrl(<<"t", "i", "d", "e">>), AuthorCy, AuthorDi,
            Poem1Url, Poem2Url} |->
        IF u \in {ThemeUrl(<<"s", "e", "a">>), AuthorCy} THEN SeaFirst
        ELSE IF u \in {ThemeUrl(<<"t", "i", "d", "e">>), AuthorDi} THEN SlugFirst
        ELSE Site[u]]

CollideThemes == {<<"s", "e", "a">>, <<"t", "i", "d", "e">>}
CollideRows == {<<AuthorCy>>, <<AuthorDi>>, <<<<"n", "/", "a">>>>}

InitCollide ==
    /\ page = CollideSite
    /\ arg = <<>>
    /\ result = <<>>
    /\ fs = <<>>
    /\ trace = <<>>
    /\ \/ /\ pc = "call_theme"
          /\ \E theme_name \in CollideThemes :
               st = Locals("theme", theme_name, TRUE, <<>>, 1, FALSE, 0)
       \/ /\ pc = "call_author"
          /\ \E rows \in SeqUpTo(CollideRows, MaxRunRows) :
               st = Locals("author", <<>>, TRUE, rows, 1, FALSE, 0)

NextCollide ==
    \/ StartAuthorRange
    \/ SkipRow
    \/ AuthorStep
    \/ AuthorPoemStep
    \/ AuthorDone
    \/ AuthorFinish
    \/ StartTheme
    \/ ThemePoemStep
    \/ ThemeFinish
    \/ RunAgain

SpecCollide == InitCollide /\ [][NextCollide]_vars

\* candidates a and b of the current list, a before b, are distinct poems
\* whose titles have one slug
Colliding(a, b) ==
    /\ a < b
    /\ st.poems[a].url # st.poems[b].url
    /\ clean_filename(st.poems[a].title) = clean_filename(st.poems[b].title)

\* the artifact text of a candidate whose page is fetched without failure
ArtifactText(poem) ==
    scrape_poem_content(get_page(page, poem.url, FALSE), poem.title).ret

\* the file of candidate b holds the artifact text of candidate b
HoldsTextOf(b) ==
    LET path == FilePath(st.folder, clean_filename(st.poems[b].title))
    IN  Exists(fs, path) /\ fs[path] = ArtifactText(st.poems[b])

Passed == IF pc \in {"author_poems", "theme_poems"} THEN 1..(st.j - 1) ELSE {}

\* C14 (as claimed): when two distinct candidates processed in one run have
\* titles with the same slug and both poems can be extracted (nothing fails),
\* then once the loop has passed both, <directory>/<slug>.txt holds the later
\* poem's artifact text, in both run modes and for either order of the two.
C14_CollisionOverwrites ==
    st.faults = 0 =>
        \A a, b \in Passed :
            (/\ Colliding(a, b)
             /\ ArtifactText(st.poems[a]) # None
             /\ ArtifactText(st.poems[b]) # None) => HoldsTextOf(b)

\* in theme mode the later poem does overwrite when its title is not its own
\* slug: the existence test of line 267 looks for <title>.txt, which no run
\* writes
C14_ThemeOverwrites ==
    (st.faults = 0 /\ st.mode = "theme") =>
        \A a, b \in Passed :
            (/\ Colliding(a, b)
             /\ st.poems[b].title # clean_filename(st.poems[b].title)
             /\ ArtifactText(st.poems[b]) # None) => HoldsTextOf(b)

\* the collision has happened in theme mode with the overwrite
C14_ThemeOverwritesReached ==
    /\ st.faults = 0 /\ st.mode = "theme"
    /\ \E a, b \in Passed :
          /\ Colliding(a, b)
          /\ st.poems[b].title # clean_filename(st.poems[b].title)
          /\ HoldsTextOf(b)
          /\ ~HoldsTextOf(a)

====
